---------------------------- MODULE Spec2Model ----------------------------
(***************************************************************************)
(* A model of three units of the scml-agents repository:                   *)
(*   - ModifiedStepNegotiationManager (scml2021/standard/team_82),         *)
(*   - PHLA.History and the one-shot agent hierarchy                       *)
(*     SimpleAgent -> BetterAgent -> AdaptiveAgent -> LearningAgent ->     *)
(*     PHLA (scml2023/oneshot/team_127/agents.py),                         *)
(*   - the training driver (scml2020/team_10/utility_train.py).            *)
(*                                                                         *)
(* Floats are modelled exactly.  The manager's controller targets are      *)
(* kept in tenths (target * 1.2 is 12 * target tenths); prices of the       *)
(* one-shot agents are rationals <<numerator, denominator>>.               *)
(***************************************************************************)
EXTENDS Integers, Sequences, FiniteSets, TLC

(***************************************************************************)
(* Bounds of the model.                                                    *)
(***************************************************************************)
NSteps == 3            \* awi.n_steps: slots per role
MaxQty == 5            \* largest quantity / target sum offered as input
MaxSecured == 5        \* cap of a controller's secured counter
MaxControllers == 2    \* cap of StepController objects ever constructed
MaxPrice == 2          \* largest unit price of the unit-price issue
MaxAdds == 7           \* cap of add_price calls on one History
MaxQueries == 1        \* cap of trimmed-mean queries on one History
MaxNeed == 2           \* largest exogenous quantity of a simulated step
MaxIssueQty == 2       \* quantity_issue.max_value of a negotiation
NegSteps == 20         \* n_steps of a negotiation
ThScale == 10          \* the threshold _th is kept in 1 / ThScale units
MaxTrims == 1          \* cap of trimmed-mean queries that shorten a history
WorldSteps == 2        \* simulated steps of the one-shot world
MaxPool == 2           \* most negotiations an agent recorded in one role
MaxAgents == 1         \* most agents of a simulated world
MaxSeasons == 1        \* most worlds run by the training script
MaxBoundary == 3       \* largest RESPONSE_RELATIVE_TIME

VARIABLES
    sellers,       \* self.sellers: step -> ControllerInfo
    buyers,        \* self.buyers : step -> ControllerInfo
    made,          \* number of StepController objects constructed so far
    pc,            \* "idle", or "generate" inside _generate_negotiations
    gen,           \* <<step, sell>> of the pending generation pass
    last,          \* the last call made on the manager and what it returned
    created,       \* the last direct call of create_controller and its result
    prices,        \* History.prices of one History object
    added,         \* every price given to add_price of that object, in order
    query,         \* the last trimmed-mean query: prices before and after, value
    cls,           \* the class of the one-shot agent, "" before construction
    phase,         \* where the agent is in the simulation's callback order
    awi,           \* what the agent's world interface shows in this step
    self,          \* the attributes of the one-shot agent
    running,       \* partner -> its negotiation of this step is still running
    callback,      \* the last callback of the agent and what it returned
    shown,         \* partner -> highest and lowest price it offered this step
    trims,         \* number of queries that shortened a history this step
    agreed,        \* the quantities of the agreements concluded this step
    pending,       \* partner -> the agent's proposal it has not answered yet
    script,        \* the globals of utility_train.py once the script has run
    asked          \* the last call of BetterAgent._th and what it returned

vars == <<sellers, buyers, made, pc, gen, last, created, prices, added, query,
          cls, phase, awi, self, running, callback, shown, trims, agreed,
          pending,
          script, asked>>

\* The step negotiation manager's state, and what its callbacks leave alone.
manager == <<sellers, buyers, made, pc, gen, last, created>>

pricelog == <<prices, added, query>>

trader == <<cls, phase, awi, self, running, callback, shown, trims, agreed,
            pending>>

offline == <<script, asked>>

aside == <<created, pricelog, trader, offline>>

--------------------------------------------------------------------------
(***************************************************************************)
(* ModifiedStepNegotiationManager.  A StepController is referenced by the   *)
(* one slot it was built for, so the object is kept in the slot's          *)
(* controller field; its id (the count of controllers constructed before    *)
(* it, plus one) is its identity.                                           *)
(***************************************************************************)
None == [id |-> 0]

Steps == 0 .. NSteps - 1

\* Execution fractions in percent: self._execution_fractions[partner] or
\* self._default_execution_fraction, fractions of a contract's quantity.
Fractions == {50, 100}

Partners == {"p1", "p2"}

\* The quantities asked for (qvalues[1], a positive target sum).
Qtys == {MaxQty}

\* The quantities of the contracts a controller concludes.
AgreedQtys == {MaxQty - 1, MaxQty}

Max(a, b) == IF a >= b THEN a ELSE b

Min(a, b) == IF a <= b THEN a ELSE b

RECURSIVE SumFractions(_, _)
SumFractions(fr, ps) ==
    IF ps = {} THEN 0
    ELSE LET p == CHOOSE x \in ps : TRUE
         IN  fr[p] + SumFractions(fr, ps \ {p})

\* scml's ControllerInfo dataclass, as the constructor calls build it.
ControllerInfo(controller, time_step, is_seller, time_range, target, expected, done) ==
    [controller |-> controller, time_step |-> time_step, is_seller |-> is_seller,
     time_range |-> time_range, target |-> target, expected |-> expected,
     done |-> done]

\* self._trange(step, is_seller) of the base strategy: an opaque value.
Trange(step, is_seller) == <<"trange", step, is_seller>>

\* The StepController fields this manager sets or reads: target in tenths.
StepController(id, is_seller, target_quantity10, step) ==
    [id |-> id, is_seller |-> is_seller, target |-> target_quantity10,
     step |-> step, secured |-> 0]

Slots(is_seller) == IF is_seller THEN sellers ELSE buyers

\* The mutant of target_quantity: <= for <.
target_quantity_le(target, expected_quantity) ==
    IF target <= expected_quantity THEN target * 12 ELSE target * 8

\* target * 1.2 if target < expected_quantity else target * 0.8, in tenths.
target_quantity(target, expected_quantity) ==
    IF target < expected_quantity THEN target * 12 ELSE target * 8

\* The mutant of SlotOccupied: create_controller never finds a controller.
SlotOccupied_never(is_seller, step) == FALSE

\* The two early returns of create_controller.
SlotOccupied(is_seller, step) == Slots(is_seller)[step].controller # None

\* create_controller: the controller returned and the number constructed.
create_controller(is_seller, target, expected_quantity, step) ==
    IF SlotOccupied(is_seller, step)
    THEN [c |-> Slots(is_seller)[step].controller, made |-> made]
    ELSE [c |-> StepController(made + 1, is_seller,
                               target_quantity(target, expected_quantity), step),
          made |-> made + 1]

\* The mutant of add_controller: the slot keeps its done flag.
add_controller_keeps_done(controller, is_seller, target, expected_quantity, step) ==
    LET info == ControllerInfo(controller, step, is_seller,
                               Trange(step, is_seller), target,
                               expected_quantity, Slots(is_seller)[step].done)
    IN  IF is_seller
        THEN <<[sellers EXCEPT ![step] = info], buyers>>
        ELSE <<sellers, [buyers EXCEPT ![step] = info]>>

\* add_controller: <<sellers, buyers>> afterwards.
add_controller(controller, is_seller, target, expected_quantity, step) ==
    LET info == ControllerInfo(controller, step, is_seller,
                               Trange(step, is_seller), target,
                               expected_quantity, FALSE)
    IN  IF is_seller
        THEN <<[sellers EXCEPT ![step] = info], buyers>>
        ELSE <<sellers, [buyers EXCEPT ![step] = info]>>

NoCall ==
    [op |-> "init", is_seller |-> FALSE, step |-> 0, target |-> 0, ok |-> FALSE,
     c |-> None]

\* The mutant of expected_quantity: the sum of the fractions for their mean.
expected_quantity_of_sum(qmax, fr, partners) ==
    (qmax * SumFractions(fr, partners)) \div 100

\* int(math.floor(qvalues[1] * execution_fraction)), the fraction being the
\* mean of the partners' fractions.
expected_quantity(qmax, fr, partners) ==
    (qmax * SumFractions(fr, partners)) \div (100 * Cardinality(partners))

\* The mutant of StartRegisters: the controller is registered in any case.
StartRegisters_always(accepted) == TRUE

\* if self.awi.request_negotiations(...): self.add_controller(...)
StartRegisters(accepted) == accepted

\* _start_negotiations(product, sell, step, qvalues, uvalues, tvalues, partners),
\* the platform answering the request with accepted.
start_negotiations(sell, step, qmax, fr, partners, accepted) ==
    LET expected == expected_quantity(qmax, fr, partners)
        new == create_controller(sell, qmax, expected, step)
        slots == IF StartRegisters(accepted)
                 THEN add_controller(new.c, sell, qmax, expected, step)
                 ELSE <<sellers, buyers>>
    IN  /\ new.made <= MaxControllers
        /\ made' = new.made
        /\ sellers' = slots[1]
        /\ buyers' = slots[2]
        /\ last' = [NoCall EXCEPT !.op = "start", !.is_seller = sell,
                                  !.step = step, !.target = qmax,
                                  !.ok = accepted,
                                  !.c = IF new.made > made THEN new.c
                                        ELSE None]

\* The production planner starts negotiations for a step and a role.
StartNegotiations ==
    /\ pc = "idle"
    /\ \E sell \in BOOLEAN, step \in Steps, qmax \in Qtys,
          partners \in (SUBSET Partners) \ {{}}, accepted \in BOOLEAN :
          \E fr \in [partners -> Fractions] :
             start_negotiations(sell, step, qmax, fr, partners, accepted)
    /\ UNCHANGED <<pc, gen, aside>>

\* t_min, t_max = issues[TIME].min_value, issues[TIME].max_value + 1
\* step = max(0, t_min - 1) if is_seller else min(n_steps - 1, t_max + 1)
request_step(is_seller, min_value, max_value) ==
    LET t_min == min_value
        t_max == max_value + 1
    IN  IF is_seller THEN Max(0, t_min - 1)
        ELSE Min(NSteps - 1, t_max + 1)

\* The mutant of Declines: a zero target is not declined.
Declines_negative(target) == target < 0

\* if target <= 0: return None
Declines(target) == target <= 0

\* respond_to_negotiation_request(initiator, issues, annotation, mechanism);
\* target is target_quantities((t_min, t_max + 1), is_seller).sum().
respond_to_negotiation_request(is_seller, min_value, max_value, target) ==
    LET step == request_step(is_seller, min_value, max_value)
        called == [NoCall EXCEPT !.op = "respond", !.is_seller = is_seller,
                                 !.step = step, !.target = target]
    IN  IF Declines(target)
        THEN /\ last' = called
             /\ UNCHANGED <<sellers, buyers, made>>
        ELSE IF Slots(is_seller)[step].controller = None
        THEN LET new == create_controller(is_seller, target, target, step)
                 slots == add_controller(new.c, is_seller, target, target, step)
             IN  /\ new.made <= MaxControllers
                 /\ made' = new.made
                 /\ sellers' = slots[1]
                 /\ buyers' = slots[2]
                 /\ last' = [called EXCEPT !.ok = TRUE, !.c = new.c]
        ELSE /\ last' = [called EXCEPT !.ok = TRUE]
             /\ UNCHANGED <<sellers, buyers, made>>

\* A partner asks for a negotiation.
RespondToNegotiationRequest ==
    /\ pc = "idle"
    /\ \E is_seller \in BOOLEAN, min_value \in Steps, max_value \in Steps,
          target \in {-1, 0} \cup Qtys :
          /\ min_value <= max_value
          /\ respond_to_negotiation_request(is_seller, min_value, max_value, target)
    /\ UNCHANGED <<pc, gen, aside>>

\* The mutant of Regenerates: only a shortfall triggers a pass.
Regenerates_lt(quantity, target10) == quantity * 10 < target10

\* if quantity <= target: self._generate_negotiations(...)
Regenerates(quantity, target10) == quantity * 10 <= target10

\* all_negotiations_concluded(controller_index, is_seller), up to the call of
\* the platform's _generate_negotiations.
all_negotiations_concluded(controller_index, is_seller) ==
    LET info == Slots(is_seller)[controller_index]
        c == info.controller
        marked == [info EXCEPT !.done = TRUE]
        cleared == [marked EXCEPT !.controller = None]
        called == [NoCall EXCEPT !.op = "concluded", !.is_seller = is_seller,
                                 !.step = controller_index]
    IN  IF c = None
        THEN /\ sellers' = IF is_seller
                           THEN [sellers EXCEPT ![controller_index] = marked]
                           ELSE sellers
             /\ buyers' = IF is_seller THEN buyers
                          ELSE [buyers EXCEPT ![controller_index] = marked]
             /\ last' = called
             /\ UNCHANGED <<pc, gen>>
        ELSE /\ sellers' = IF is_seller
                           THEN [sellers EXCEPT ![controller_index] = cleared]
                           ELSE sellers
             /\ buyers' = IF is_seller THEN buyers
                          ELSE [buyers EXCEPT ![controller_index] = cleared]
             /\ IF Regenerates(c.secured, c.target)
                THEN /\ pc' = "generate"
                     /\ gen' = <<controller_index, is_seller>>
                     /\ last' = [called EXCEPT !.ok = TRUE]
                ELSE /\ last' = called
                     /\ UNCHANGED <<pc, gen>>

\* A StepController reports that it is done negotiating: the one its slot
\* holds, or one the slot held before (the slot is then marked done).
AllNegotiationsConcluded ==
    /\ pc = "idle"
    /\ \E controller_index \in Steps, is_seller \in BOOLEAN :
          /\ \/ Slots(is_seller)[controller_index].controller # None
             \/ Slots(is_seller)[controller_index].done
          /\ all_negotiations_concluded(controller_index, is_seller)
    /\ UNCHANGED <<made, aside>>

\* The platform's _generate_negotiations(step, sell), called by
\* all_negotiations_concluded: it starts negotiations for that step and role,
\* or finds nothing to negotiate.
GenerateNegotiations ==
    /\ pc = "generate"
    /\ pc' = "idle"
    /\ gen' = <<0, FALSE>>
    /\ UNCHANGED aside
    /\ \/ /\ last' = [NoCall EXCEPT !.op = "nothing"]
          /\ UNCHANGED <<sellers, buyers, made>>
       \/ \E qmax \in Qtys, partners \in (SUBSET Partners) \ {{}},
             accepted \in BOOLEAN :
             \E fr \in [partners -> Fractions] :
                start_negotiations(gen[2], gen[1], qmax, fr, partners, accepted)

\* A negotiation of the controller held in a slot ends in a contract: the
\* controller adds the agreed quantity to its secured counter.
Secure ==
    /\ pc = "idle"
    /\ \E is_seller \in BOOLEAN, step \in Steps, q \in AgreedQtys :
          LET info == Slots(is_seller)[step]
              c == info.controller
              grown == [info EXCEPT !.controller.secured = @ + q]
          IN  /\ c # None
              /\ c.secured + q <= MaxSecured
              /\ sellers' = IF is_seller THEN [sellers EXCEPT ![step] = grown]
                            ELSE sellers
              /\ buyers' = IF is_seller THEN buyers
                           ELSE [buyers EXCEPT ![step] = grown]
              /\ last' = [NoCall EXCEPT !.op = "secure"]
    /\ UNCHANGED <<made, pc, gen, aside>>

NotCreated == [c |-> None, target |-> 0, expected |-> 0, fresh |-> FALSE]

\* init(): one empty ControllerInfo per step and role.
InitManager ==
    /\ buyers = [i \in Steps |-> ControllerInfo(None, i, FALSE, <<>>, 0, 0, FALSE)]
    /\ sellers = [i \in Steps |-> ControllerInfo(None, i, TRUE, <<>>, 0, 0, FALSE)]
    /\ made = 0
    /\ pc = "idle"
    /\ gen = <<0, FALSE>>
    /\ last = NoCall

--------------------------------------------------------------------------
(***************************************************************************)
(* create_controller called directly on the manager as init() leaves it,    *)
(* with every target and expected quantity of a bounded set.                *)
(***************************************************************************)
\* The nominal targets and, for each, the expected quantities tried.
CreateTargets == 0 .. 2 * MaxQty

CreateExpected(target) ==
    {0, target \div 2, target - 1, target, target + 1, 2 * target} \ {-1}

\* create_controller(is_seller, target, urange, expected_quantity, step)
CreateController ==
    \E is_seller \in BOOLEAN, step \in Steps, target \in CreateTargets :
       \E expected \in CreateExpected(target) :
          LET new == create_controller(is_seller, target, expected, step)
          IN  /\ new.made <= MaxControllers
              /\ made' = new.made
              /\ created' = [c |-> new.c, target |-> target,
                             expected |-> expected, fresh |-> new.made # made]
              /\ last' = [NoCall EXCEPT !.op = "create", !.is_seller = is_seller,
                                        !.step = step]
              /\ UNCHANGED <<sellers, buyers, pc, gen, pricelog, trader,
                              offline>>

--------------------------------------------------------------------------
(***************************************************************************)
(* Exact arithmetic.  A price is a rational <<n, d>> in lowest terms with   *)
(* d > 0; float("inf") is <<1, 0>>, -inf is <<-1, 0>> and <<0, 0>> is nan   *)
(* (0.0 * inf), which no comparison holds for; <<0, 0>> also stands for the *)
(* None of get_average_price_without_extreme_values.                       *)
(***************************************************************************)
Abs(n) == IF n < 0 THEN -n ELSE n

\* F applied to the values of its operands, each evaluated once: the way
\* a result that is read several times is named below.
Strict1(F(_), x) == CHOOSE z \in {F(a) : a \in {x}} : TRUE

Strict2(F(_, _), x, y) == CHOOSE z \in {F(a, b) : a \in {x}, b \in {y}} : TRUE

RECURSIVE Gcd(_, _)
Gcd(a, b) == IF b = 0 THEN a ELSE Gcd(b, a % b)

Rat(n, d) ==
    Strict1(LAMBDA g : IF g = 0 THEN <<0, 0>>
                       ELSE IF d < 0 THEN <<(-n) \div g, (-d) \div g>>
                       ELSE <<n \div g, d \div g>>,
            Gcd(Abs(n), Abs(d)))

Num(n) == <<n, 1>>

Inf == <<1, 0>>

NoValue == <<0, 0>>

RAdd(x, y) ==
    Strict2(LAMBDA a, b : Rat(a[1] * b[2] + b[1] * a[2], a[2] * b[2]), x, y)

RSub(x, y) ==
    Strict2(LAMBDA a, b : Rat(a[1] * b[2] - b[1] * a[2], a[2] * b[2]), x, y)

RMul(x, y) == Strict2(LAMBDA a, b : Rat(a[1] * b[1], a[2] * b[2]), x, y)

RDiv(x, y) == Strict2(LAMBDA a, b : Rat(a[1] * b[2], a[2] * b[1]), x, y)

RLe(x, y) == Strict2(LAMBDA a, b : a[1] * b[2] <= b[1] * a[2], x, y)

RLt(x, y) == Strict2(LAMBDA a, b : a[1] * b[2] < b[1] * a[2], x, y)

\* max(x, y) and min(x, y) of Python: y replaces x only when strictly better.
RMax(x, y) == Strict2(LAMBDA a, b : IF RLt(a, b) THEN b ELSE a, x, y)

RMin(x, y) == Strict2(LAMBDA a, b : IF RLt(b, a) THEN b ELSE a, x, y)

RECURSIVE SumFrom(_, _)
SumFrom(total, seq) ==
    IF seq = <<>> THEN total ELSE SumFrom(RAdd(total, Head(seq)), Tail(seq))

RSum(seq) == Strict1(LAMBDA s : SumFrom(Num(0), s), seq)

\* max(list) and min(list) of a non-empty list: Python scans from the left
\* and replaces its candidate by a strictly better element (a nan never is).
RECURSIVE MaxFrom(_, _)
MaxFrom(best, seq) ==
    IF seq = <<>> THEN best ELSE MaxFrom(RMax(best, Head(seq)), Tail(seq))

MaxOf(seq) == Strict1(LAMBDA s : MaxFrom(Head(s), Tail(s)), seq)

RECURSIVE MinFrom(_, _)
MinFrom(best, seq) ==
    IF seq = <<>> THEN best ELSE MinFrom(RMin(best, Head(seq)), Tail(seq))

MinOf(seq) == Strict1(LAMBDA s : MinFrom(Head(s), Tail(s)), seq)

\* statistics.mean(list) of a non-empty list.
Mean(seq) == Strict1(LAMBDA s : RDiv(RSum(s), Num(Len(s))), seq)

\* list.remove(x): the list without the first occurrence of x.
Remove(seq, x) ==
    Strict2(LAMBDA s, v :
               IF \A k \in 1 .. Len(s) : s[k] # v THEN s
               ELSE LET at == CHOOSE k \in 1 .. Len(s) :
                                 s[k] = v /\ \A j \in 1 .. k - 1 : s[j] # v
                    IN  SubSeq(s, 1, at - 1) \o SubSeq(s, at + 1, Len(s)),
            seq, x)

--------------------------------------------------------------------------
(***************************************************************************)
(* PHLA.History                                                            *)
(***************************************************************************)
DEPTH == 6

\* The mutant of add_price: the newest stored price is dropped, not the oldest.
add_price_drop_newest(history, price) ==
    IF Len(history) = DEPTH
    THEN Append(SubSeq(history, 1, DEPTH - 1), price)
    ELSE Append(history, price)

\* History.add_price: the prices afterwards.
add_price(history, price) ==
    IF Len(history) = DEPTH
    THEN Append(Tail(history), price)
    ELSE Append(history, price)

\* The mutant of get_average_price_without_extreme_values: the two extremes
\* are replaced by their own mean.
get_average_extremes_mean(history) ==
    IF Len(history) = 0 THEN [avg |-> NoValue, prices |-> history]
    ELSE IF Len(history) > 5
    THEN Strict1(LAMBDA no_max :
            Strict1(LAMBDA kept : [avg |-> Mean(kept), prices |-> kept],
                    Append(Remove(no_max, MinOf(no_max)),
                           RDiv(RAdd(MaxOf(history), MinOf(no_max)), Num(2)))),
            Remove(history, MaxOf(history)))
    ELSE [avg |-> Mean(history), prices |-> history]

\* History.get_average_price_without_extreme_values: the value returned
\* and the prices afterwards.
get_average_price_without_extreme_values(history) ==
    IF Len(history) = 0 THEN [avg |-> NoValue, prices |-> history]
    ELSE IF Len(history) > 5
    THEN Strict1(LAMBDA no_min :
            Strict1(LAMBDA kept : [avg |-> Mean(kept), prices |-> kept],
                    Append(no_min, Mean(no_min))),
            Strict1(LAMBDA no_max : Remove(no_max, MinOf(no_max)),
                    Remove(history, MaxOf(history))))
    ELSE [avg |-> Mean(history), prices |-> history]

\* The unit prices offered.
Prices == {Num(p) : p \in 1 .. MaxPrice}

\* No trimmed-mean query was made: n counts the queries.
NoQuery == [n |-> 0, before |-> <<>>, avg |-> NoValue, after |-> <<>>]

\* History.__init__: self.prices = []
InitHistory ==
    /\ prices = <<>>
    /\ added = <<>>
    /\ query = NoQuery

\* history.add_price(price)
AddPrice ==
    /\ Len(added) < MaxAdds
    /\ \E price \in Prices :
          /\ prices' = add_price(prices, price)
          /\ added' = Append(added, price)
    /\ UNCHANGED <<query, manager, trader, offline>>

\* history.get_average_price_without_extreme_values()
GetAverage ==
    /\ query.n < MaxQueries
    /\ LET got == get_average_price_without_extreme_values(prices)
       IN  /\ prices' = got.prices
           /\ query' = [n |-> query.n + 1, before |-> prices,
                        avg |-> got.avg, after |-> got.prices]
    /\ UNCHANGED <<added, manager, trader, offline>>

--------------------------------------------------------------------------
(***************************************************************************)
(* The one-shot agents SimpleAgent -> BetterAgent -> AdaptiveAgent ->       *)
(* LearningAgent -> PHLA.  One agent negotiates with its partners; the      *)
(* simulation calls init once and then, every simulated step, before_step,  *)
(* the negotiation callbacks and step.                                      *)
(***************************************************************************)
Classes == <<"SimpleAgent", "BetterAgent", "AdaptiveAgent", "LearningAgent", "PHLA">>

Rank(c) == CHOOSE i \in 1 .. Len(Classes) : Classes[i] = c

\* isinstance(agent of class c, base)
IsA(c, base) == Rank(c) >= Rank(base)

\* The negotiation partners of the agent.
Traders == {"a", "b"}

\* LearningAgent.__init__ defaults, BetterAgent.__init__ default, PHLA.
acc_price_slack == Inf

step_price_slack == Num(0)

opp_price_slack == Num(0)

opp_acc_price_slack == Rat(1, 5)

range_slack == Rat(3, 100)

PATIENCE_FACTOR == Rat(9, 10)

\* The attributes before the callbacks that create them have run.
NewAgent ==
    [secured |-> 0,
     best_selling |-> Num(0), best_buying |-> Inf,
     best_acc_selling |-> Num(0), best_acc_buying |-> Inf,
     best_opp_selling |-> [p \in Traders |-> Num(0)],
     best_opp_buying |-> [p \in Traders |-> Inf],
     best_opp_acc_selling |-> [p \in Traders |-> Num(0)],
     best_opp_acc_buying |-> [p \in Traders |-> Inf],
     selling_history |-> [p \in Traders |-> <<>>],
     buying_history |-> [p \in Traders |-> <<>>]]

\* The world interface before init.
NoWorld ==
    [current_step |-> -1, n_steps |-> 0,
     exogenous_input |-> 0, exogenous_output |-> 0,
     partners |-> {}, selling |-> [p \in Traders |-> FALSE], mn |-> 0, mx |-> 0]

\* SimpleAgent._needed
needed(me, world) ==
    world.exogenous_input + world.exogenous_output - me.secured

\* SimpleAgent._is_selling for the negotiation with a partner.
is_selling(world, partner) == world.selling[partner]

\* x ** 5: the concession exponent 0.2 makes the threshold a fifth root.
Fifth(x) == x * x * x * x * x

\* The largest k <= from with (k / ThScale) ** 5 <= num / den.
RECURSIVE FifthRoot(_, _, _)
FifthRoot(num, den, from) ==
    IF Fifth(from) * den <= num * Fifth(ThScale) THEN from
    ELSE FifthRoot(num, den, from - 1)

\* BetterAgent._th, rounded down to a multiple of 1 / ThScale:
\* ((n_steps - step - 1) / (n_steps - 1)) ** 0.2
\* The division raises ZeroDivisionError when n_steps is 1: no value.
th(step, n_steps) ==
    IF n_steps - 1 = 0 THEN NoValue
    ELSE Rat(FifthRoot(n_steps - step - 1, n_steps - 1, ThScale), ThScale)

\* No call of _th yet.
NotAsked == [n_steps |-> 0, step |-> 0, th |-> NoValue]

\* self._th(state.step, ami.n_steps) in a negotiation of n_steps rounds, at
\* one of its steps.
Th ==
    /\ \E n_steps \in 1 .. NegSteps, step \in 0 .. NegSteps - 1 :
          /\ step <= n_steps - 1
          /\ asked' = [n_steps |-> n_steps, step |-> step,
                       th |-> th(step, n_steps)]
    /\ UNCHANGED <<script, manager, pricelog, trader>>

\* BetterAgent._price_range
Better_price_range(world) == [mn |-> Num(world.mn), mx |-> Num(world.mx)]

\* The mutant of AdaptiveAgent._price_range: the best prices are not used.
Adaptive_price_range_listed(me, world, partner) == Better_price_range(world)

\* AdaptiveAgent._price_range
Adaptive_price_range(me, world, partner) ==
    Strict1(LAMBDA r :
               IF is_selling(world, partner)
               THEN [mn |-> RMax(r.mn, me.best_selling), mx |-> r.mx]
               ELSE [mn |-> r.mn, mx |-> RMin(r.mx, me.best_buying)],
            Better_price_range(world))

\* LearningAgent._price_range
Learning_price_range(me, world, partner) ==
    Strict2(LAMBDA mn, mx :
        IF is_selling(world, partner)
        THEN [mn |-> RMin(RMul(mx, RSub(Num(1), range_slack)),
                          MaxOf(<<mn,
                                  RMul(me.best_selling,
                                       RSub(Num(1), step_price_slack)),
                                  RMul(me.best_acc_selling,
                                       RSub(Num(1), acc_price_slack)),
                                  RMul(me.best_opp_selling[partner],
                                       RSub(Num(1), opp_price_slack)),
                                  RMul(me.best_opp_acc_selling[partner],
                                       RSub(Num(1), opp_acc_price_slack))>>)),
              mx |-> mx]
        ELSE [mn |-> mn,
              mx |-> RMax(RMul(mn, RAdd(Num(1), range_slack)),
                          MinOf(<<mx,
                                  RMul(me.best_buying,
                                       RAdd(Num(1), step_price_slack)),
                                  RMul(me.best_acc_buying,
                                       RAdd(Num(1), acc_price_slack)),
                                  RMul(me.best_opp_buying[partner],
                                       RAdd(Num(1), opp_price_slack)),
                                  RMul(me.best_opp_acc_buying[partner],
                                       RAdd(Num(1), opp_acc_price_slack))>>))],
        Num(world.mn), Num(world.mx))

\* The mutant of PHLA._price_range: the range of the unit-price issue.
PHLA_price_range_of_issue(me, world, partner) ==
    [mn |-> Num(world.mn), mx |-> Num(world.mx), me |-> me]

\* PHLA._price_range: the range and the agent afterwards (the query of the
\* history changes the history).
PHLA_price_range(me, world, partner) ==
    Strict1(LAMBDA r :
        IF is_selling(world, partner)
        THEN IF me.selling_history[partner] # <<>>
             THEN Strict1(LAMBDA got :
                     [mn |-> IF got.avg # NoValue
                             THEN RMax(r.mn, RMul(got.avg, PATIENCE_FACTOR))
                             ELSE r.mn,
                      mx |-> r.mx,
                      me |-> [me EXCEPT !.selling_history[partner] = got.prices]],
                     get_average_price_without_extreme_values(
                        me.selling_history[partner]))
             ELSE [mn |-> r.mn, mx |-> r.mx, me |-> me]
        ELSE IF me.buying_history[partner] # <<>>
             THEN Strict1(LAMBDA got :
                     [mn |-> r.mn,
                      mx |-> IF got.avg # NoValue
                             THEN RMin(r.mx, RDiv(got.avg, PATIENCE_FACTOR))
                             ELSE r.mx,
                      me |-> [me EXCEPT !.buying_history[partner] = got.prices]],
                     get_average_price_without_extreme_values(
                        me.buying_history[partner]))
             ELSE [mn |-> r.mn, mx |-> r.mx, me |-> me],
        Learning_price_range(me, world, partner))

\* self._price_range(ami) of an agent of class c: the method of the most
\* derived class that defines it.
price_range(c, me, world, partner) ==
    IF IsA(c, "PHLA") THEN PHLA_price_range(me, world, partner)
    ELSE Strict1(LAMBDA r : [mn |-> r.mn, mx |-> r.mx, me |-> me],
                 IF IsA(c, "LearningAgent")
                 THEN Learning_price_range(me, world, partner)
                 ELSE IF IsA(c, "AdaptiveAgent")
                 THEN Adaptive_price_range(me, world, partner)
                 ELSE Better_price_range(world))

\* BetterAgent._find_good_price, given the price range
find_good_price(r, world, partner, step) ==
    Strict1(LAMBDA concession :
               IF is_selling(world, partner)
               THEN RAdd(r.mn, concession)
               ELSE RSub(r.mx, concession),
            RMul(th(step, NegSteps), RSub(r.mx, r.mn)))

\* The mutant of BetterAgent._is_good_price: every price is good.
is_good_price_always(r, world, partner, step, price) == TRUE

\* BetterAgent._is_good_price, given the price range
is_good_price(r, world, partner, step, price) ==
    IF is_selling(world, partner)
    THEN RLe(RMul(th(step, NegSteps), RSub(r.mx, r.mn)), RSub(price, r.mn))
    ELSE RLe(RMul(th(step, NegSteps), RSub(r.mx, r.mn)), RSub(r.mx, price))

\* No offer: propose returned None.
NoOffer == [quantity |-> 0, time |-> 0, unit_price |-> NoValue]

\* SimpleAgent.best_offer
best_offer(me, world, partner) ==
    Strict1(LAMBDA my_needs :
               IF my_needs <= 0 THEN NoOffer
               ELSE [quantity |-> Max(Min(my_needs, MaxIssueQty), 1),
                     time |-> world.current_step,
                     unit_price |-> IF is_selling(world, partner)
                                    THEN Num(world.mx) ELSE Num(world.mn)],
            needed(me, world))

\* propose of an agent of class c: the offer and the agent afterwards.
propose(c, me, world, partner, step) ==
    Strict1(LAMBDA offer :
        IF ~IsA(c, "BetterAgent") \/ offer = NoOffer
        THEN [offer |-> offer, me |-> me]
        ELSE Strict1(LAMBDA r :
                [offer |-> [offer EXCEPT !.unit_price =
                               find_good_price(r, world, partner, step)],
                 me |-> r.me],
                price_range(c, me, world, partner)),
        best_offer(me, world, partner))

\* The mutant of SimpleAgent.respond: the negotiation is never ended.
Simple_respond_goes_on(me, world, offer) ==
    IF offer.quantity <= needed(me, world) THEN "ACCEPT_OFFER"
    ELSE "REJECT_OFFER"

\* SimpleAgent.respond
Simple_respond(me, world, offer) ==
    Strict1(LAMBDA my_needs :
               IF my_needs <= 0 THEN "END_NEGOTIATION"
               ELSE IF offer.quantity <= my_needs THEN "ACCEPT_OFFER"
               ELSE "REJECT_OFFER",
            needed(me, world))

\* BetterAgent.respond: the response and the agent afterwards.
Better_respond(c, me, world, partner, step, offer) ==
    Strict1(LAMBDA response :
        IF response # "ACCEPT_OFFER" THEN [response |-> response, me |-> me]
        ELSE Strict1(LAMBDA r :
                [response |-> IF is_good_price(r, world, partner, step,
                                               offer.unit_price)
                              THEN response ELSE "REJECT_OFFER",
                 me |-> r.me],
                price_range(c, me, world, partner)),
        Simple_respond(me, world, offer))

\* AdaptiveAgent.respond, after super().respond
Adaptive_saved(me, world, partner, offer) ==
    IF is_selling(world, partner)
    THEN [me EXCEPT !.best_selling = RMax(offer.unit_price, @)]
    ELSE [me EXCEPT !.best_buying = RMin(offer.unit_price, @)]

\* LearningAgent.respond, after super().respond
Learning_saved(me, world, partner, offer) ==
    IF is_selling(world, partner)
    THEN [me EXCEPT !.best_opp_selling[partner] =
                       RMax(offer.unit_price, me.best_selling)]
    ELSE [me EXCEPT !.best_opp_buying[partner] =
                       RMin(offer.unit_price, me.best_buying)]

\* PHLA.respond, after super().respond
PHLA_saved(me, world, partner, offer) ==
    IF is_selling(world, partner)
    THEN [me EXCEPT !.selling_history[partner] = add_price(@, offer.unit_price)]
    ELSE [me EXCEPT !.buying_history[partner] = add_price(@, offer.unit_price)]

\* respond of an agent of class c: the response and the agent afterwards.
respond(c, me, world, partner, step, offer) ==
    IF ~IsA(c, "BetterAgent")
    THEN [response |-> Simple_respond(me, world, offer), me |-> me]
    ELSE Strict1(LAMBDA better :
            Strict1(LAMBDA adaptive :
               Strict1(LAMBDA learning :
                  [response |-> better.response,
                   me |-> IF IsA(c, "PHLA")
                          THEN PHLA_saved(learning, world, partner, offer)
                          ELSE learning],
                  IF IsA(c, "LearningAgent")
                  THEN Learning_saved(adaptive, world, partner, offer)
                  ELSE adaptive),
               IF IsA(c, "AdaptiveAgent")
               THEN Adaptive_saved(better.me, world, partner, offer)
               ELSE better.me),
            Better_respond(c, me, world, partner, step, offer))

\* on_negotiation_success of an agent of class c: the agent afterwards.
on_negotiation_success(c, me, world, partner, agreement) ==
    Strict2(LAMBDA simple, up :
               IF ~IsA(c, "LearningAgent") THEN simple
               ELSE IF is_selling(world, partner)
               THEN [simple EXCEPT !.best_acc_selling = RMax(up, @),
                                   !.best_opp_acc_selling[partner] = RMax(up, @)]
               ELSE [simple EXCEPT !.best_acc_buying = RMin(up, @),
                                   !.best_opp_acc_buying[partner] = RMin(up, @)],
            [me EXCEPT !.secured = @ + agreement.quantity],
            agreement.unit_price)

\* before_step of an agent of class c: the agent afterwards.
before_step(c, me) ==
    Strict1(LAMBDA adaptive :
               IF IsA(c, "PHLA")
               THEN [adaptive EXCEPT
                        !.selling_history = [p \in Traders |-> <<>>],
                        !.buying_history = [p \in Traders |-> <<>>]]
               ELSE adaptive,
            IF IsA(c, "AdaptiveAgent")
            THEN [me EXCEPT !.secured = 0, !.best_selling = Num(0),
                            !.best_buying = Inf]
            ELSE [me EXCEPT !.secured = 0])

\* init of an agent of class c (LearningAgent.init): the agent afterwards.
agent_init(c, me) ==
    IF IsA(c, "LearningAgent")
    THEN [me EXCEPT !.best_acc_selling = Num(0), !.best_acc_buying = Inf,
                    !.best_opp_selling = [p \in Traders |-> Num(0)],
                    !.best_opp_buying = [p \in Traders |-> Inf],
                    !.best_opp_acc_selling = [p \in Traders |-> Num(0)],
                    !.best_opp_acc_buying = [p \in Traders |-> Inf]]
    ELSE me

\* The mutant of step: the accepted prices are forgotten with the offered.
agent_step_forgets(c, me) == agent_init(c, me)

\* step of an agent of class c (LearningAgent.step): the agent afterwards.
agent_step(c, me) ==
    IF IsA(c, "LearningAgent")
    THEN [me EXCEPT !.best_opp_selling = [p \in Traders |-> Num(0)],
                    !.best_opp_buying = [p \in Traders |-> Inf]]
    ELSE me

\* The number of queries that changed a history, made by a callback that
\* leaves the agent after where it would leave the agent plain without them.
Shortened(plain, after) ==
    IF /\ after.selling_history = plain.selling_history
       /\ after.buying_history = plain.buying_history
    THEN 0 ELSE 1

\* The agent after respond when no query changes a history.
Plain(c, me, world, partner, offer) ==
    IF IsA(c, "PHLA") THEN PHLA_saved(me, world, partner, offer) ELSE me

(***************************************************************************)
(* The simulation around the agent.                                        *)
(***************************************************************************)
\* The exogenous quantities of a step: an input to sell on when the agent
\* has a partner to sell to, or an output to buy for when it has a partner
\* to buy from, not both.
Exogenous(world) ==
    {<<i, o>> \in (0 .. MaxNeed) \X (0 .. MaxNeed) :
        /\ i = 0 \/ o = 0
        /\ i > 0 => \E p \in world.partners : world.selling[p]
        /\ o > 0 => \E p \in world.partners : ~world.selling[p]}

\* The unit-price issues of a world: a proper range and a single price.
PriceIssues == {<<1, MaxPrice>>, <<MaxPrice, MaxPrice>>}

\* The negotiation steps at which the callbacks are observed: the first,
\* the middle and the last.
StateSteps == {0, NegSteps \div 2, NegSteps - 1}

NoCallback ==
    [op |-> "none", partner |-> "", step |-> 0, offer |-> NoOffer,
     response |-> ""]

NothingPending == [p \in Traders |-> NoOffer]

NothingShown == [p \in Traders |-> [hi |-> NoValue, lo |-> NoValue]]

InitAgent ==
    /\ cls = ""
    /\ phase = "none"
    /\ awi = NoWorld
    /\ self = NewAgent
    /\ running = [p \in Traders |-> FALSE]
    /\ callback = NoCallback
    /\ shown = NothingShown
    /\ trims = 0
    /\ agreed = 0
    /\ pending = NothingPending

\* The constructor of class c.
New(c) ==
    /\ phase = "none"
    /\ cls' = c
    /\ phase' = "constructed"
    /\ UNCHANGED <<awi, self, running, callback, shown, trims, agreed, pending,
                   manager,
                   pricelog, offline>>

\* The worlds of n_steps simulated steps in which the agent has the given
\* partners: it sells to some and buys from the others, under one of the
\* given unit-price issues.
Worlds(partners, issues, n_steps) ==
    {[NoWorld EXCEPT !.n_steps = n_steps,
                     !.partners = partners, !.selling = selling,
                     !.mn = issue[1], !.mx = issue[2]] :
        selling \in {f \in [Traders -> BOOLEAN] :
                        \A p \in Traders \ partners : ~f[p]},
        issue \in issues}

\* init(), in one of the given worlds.
AgentInit(worlds) ==
    /\ phase = "constructed"
    /\ awi' \in worlds
    /\ self' = agent_init(cls, self)
    /\ phase' = "initialized"
    /\ UNCHANGED <<cls, running, callback, shown, trims, agreed, pending,
                   manager,
                   pricelog, offline>>

\* before_step(): a simulated step starts, with its exogenous contracts and
\* a negotiation with every partner.
BeforeStep ==
    /\ phase \in {"initialized", "stepped"}
    /\ awi.current_step + 1 < awi.n_steps
    /\ \E exo \in Exogenous(awi) :
          awi' = [awi EXCEPT !.current_step = @ + 1,
                             !.exogenous_input = exo[1],
                             !.exogenous_output = exo[2]]
    /\ self' = before_step(cls, self)
    /\ phase' = "negotiating"
    /\ running' = [p \in Traders |-> p \in awi.partners]
    /\ callback' = [NoCallback EXCEPT !.op = "before_step"]
    /\ shown' = NothingShown
    /\ trims' = 0
    /\ agreed' = 0
    /\ pending' = NothingPending
    /\ UNCHANGED <<cls, manager, pricelog, offline>>

\* propose(negotiator_id, state)
Propose ==
    /\ phase = "negotiating"
    /\ \E partner \in Traders, st \in StateSteps :
          /\ running[partner]
          /\ \E out \in {propose(cls, self, awi, partner, st)} :
                 /\ trims + Shortened(self, out.me) <= MaxTrims
                 /\ self' = out.me
                 /\ trims' = trims + Shortened(self, out.me)
                 /\ callback' = [op |-> "propose", partner |-> partner,
                               step |-> st, offer |-> out.offer,
                               response |-> ""]
                 /\ pending' = [pending EXCEPT ![partner] = out.offer]
    /\ UNCHANGED <<cls, phase, awi, running, shown, agreed, manager, pricelog, offline>>

\* respond(negotiator_id, state, offer): the partner's offer lies within
\* the issues of the negotiation.
Respond ==
    /\ phase = "negotiating"
    /\ \E partner \in Traders, st \in StateSteps,
          q \in 1 .. MaxIssueQty, up \in awi.mn .. awi.mx :
          /\ running[partner]
          /\ \E out \in {respond(cls, self, awi, partner, st,
                                  [quantity |-> q, time |-> awi.current_step,
                                   unit_price |-> Num(up)])} :
             LET offer == [quantity |-> q, time |-> awi.current_step,
                           unit_price |-> Num(up)]
                 seen == shown[partner]
                 plain == Plain(cls, self, awi, partner, offer)
             IN  /\ trims + Shortened(plain, out.me) <= MaxTrims
                 /\ self' = out.me
                 /\ trims' = trims + Shortened(plain, out.me)
                 /\ callback' = [op |-> "respond", partner |-> partner,
                               step |-> st, offer |-> offer,
                               response |-> out.response]
                 /\ shown' = [shown EXCEPT ![partner] =
                                 IF seen.hi = NoValue
                                 THEN [hi |-> Num(up), lo |-> Num(up)]
                                 ELSE [hi |-> RMax(seen.hi, Num(up)),
                                       lo |-> RMin(seen.lo, Num(up))]]
                 /\ running' = [running EXCEPT ![partner] =
                                   out.response # "END_NEGOTIATION"]
                 /\ pending' = [pending EXCEPT ![partner] = NoOffer]
                 /\ phase' = IF out.response = "ACCEPT_OFFER"
                             THEN "accepted" ELSE "negotiating"
    /\ UNCHANGED <<cls, awi, agreed, manager, pricelog, offline>>

\* The agreements that may be concluded now: the offer the agent has just
\* accepted, or a proposal of the agent that a partner has not answered yet
\* and accepts.
Agreements ==
    IF phase = "accepted"
    THEN {[partner |-> callback.partner, agreement |-> callback.offer]}
    ELSE {[partner |-> p, agreement |-> pending[p]] :
             p \in {t \in Traders : running[t] /\ pending[t] # NoOffer}}

\* on_negotiation_success(contract, mechanism)
OnNegotiationSuccess ==
    /\ phase \in {"accepted", "negotiating"}
    /\ \E a \in Agreements :
          /\ self' = on_negotiation_success(cls, self, awi, a.partner,
                                            a.agreement)
          /\ running' = [running EXCEPT ![a.partner] = FALSE]
          /\ pending' = [pending EXCEPT ![a.partner] = NoOffer]
          /\ callback' = [callback EXCEPT !.op = "on_negotiation_success",
                                          !.partner = a.partner,
                                          !.offer = a.agreement,
                                          !.response = ""]
          /\ agreed' = agreed + a.agreement.quantity
    /\ phase' = "negotiating"
    /\ UNCHANGED <<cls, awi, shown, trims, manager, pricelog, offline>>

\* step(): the simulated step ends.
Step ==
    /\ phase = "negotiating"
    /\ self' = agent_step(cls, self)
    /\ phase' = "stepped"
    /\ callback' = [NoCallback EXCEPT !.op = "step"]
    /\ pending' = NothingPending
    /\ UNCHANGED <<cls, awi, running, shown, trims, agreed, manager, pricelog,
                   offline>>

--------------------------------------------------------------------------
(***************************************************************************)
(* The training script utility_train.py.  It runs once, from the import of *)
(* the hyperparameters to the last fit; its inputs are the hyperparameters, *)
(* the negotiations recorded by the agents of the simulated worlds and the  *)
(* orders chosen by shuffle().                                              *)
(***************************************************************************)
\* The recorded negotiations: sequences of message vectors.
Negotiations == {<<>>, <<<<1, 2>>>>, <<<<3, 4>>, <<5, 6>>>>}

\* The agents of a world: the name and neg_history[True], neg_history[False].
AgentNames == {"MyLearnUtilityAgent", "DecentralizingAgent"}

\* The sequences over a set of at most a given length.
SeqsUpTo(S, n) == UNION {[1 .. k -> S] : k \in 0 .. n}

WorldAgents ==
    [name : AgentNames,
     selling : SeqsUpTo(Negotiations, MaxPool),
     buying : SeqsUpTo(Negotiations, MaxPool)]

\* The worlds run by the loop, each given by its agents.
Seasons == SeqsUpTo(SeqsUpTo(WorldAgents, MaxAgents), MaxSeasons)

\* The values hyperparameters.py may give to the names the script uses;
\* the validation split is a fraction <<numerator, denominator>>.
Hyperparameters ==
    [UTILITY_VALIDATION_SPLIT : {<<0, 1>>, <<1, 3>>, <<1, 2>>},
     UTILITY_LOAD_MODEL : BOOLEAN,
     UTILITY_TRAIN_SELLER : BOOLEAN,
     UTILITY_TRAIN_BUYER : BOOLEAN,
     UTILITY_SAVE_MODEL : BOOLEAN,
     RESPONSE_RELATIVE_TIME : 0 .. MaxBoundary]

\* "MyL" in agent.name
HasMyL(name) == name = "MyLearnUtilityAgent"

\* [x for x in seq if len(x) > 0]
RECURSIVE NonEmpty(_)
NonEmpty(seq) ==
    IF seq = <<>> THEN <<>>
    ELSE IF Len(Head(seq)) > 0 THEN <<Head(seq)>> \o NonEmpty(Tail(seq))
    ELSE NonEmpty(Tail(seq))

\* get_train_data(world), the world given by its agents in order
RECURSIVE get_train_data(_)
get_train_data(agents) ==
    IF agents = <<>> THEN [seller |-> <<>>, buyer |-> <<>>]
    ELSE LET rest == get_train_data(Tail(agents))
             agent == Head(agents)
         IN  IF ~HasMyL(agent.name) THEN rest
             ELSE [seller |-> NonEmpty(agent.selling) \o rest.seller,
                   buyer |-> NonEmpty(agent.buying) \o rest.buyer]

\* The loop over the worlds: the two pools after all seasons.
RECURSIVE Harvest(_)
Harvest(seasons) ==
    IF seasons = <<>> THEN [seller |-> <<>>, buyer |-> <<>>]
    ELSE LET rest == Harvest(Tail(seasons))
             data == get_train_data(Head(seasons))
         IN  [seller |-> data.seller \o rest.seller,
              buyer |-> data.buyer \o rest.buyer]

\* A slice bound i of a sequence of length n, as Python reads it.
SliceIndex(i, n) == IF i < 0 THEN Max(n + i, 0) ELSE Min(i, n)

\* seq[:stop]
SliceTo(seq, stop) == SubSeq(seq, 1, SliceIndex(stop, Len(seq)))

\* seq[start:]
SliceFrom(seq, start) == SubSeq(seq, SliceIndex(start, Len(seq)) + 1, Len(seq))

\* The mutant of split_features_tags: the tags start after the boundary.
split_features_tags_after(data, boundary) ==
    [features |-> [i \in 1 .. Len(data) |->
                     [j \in 1 .. Len(data[i]) |-> SliceTo(data[i][j], boundary)]],
     tags |-> [i \in 1 .. Len(data) |->
                 [j \in 1 .. Len(data[i]) |->
                     SliceFrom(data[i][j], boundary + 1)]]]

\* split_features_tags(data), with RESPONSE_RELATIVE_TIME the boundary
split_features_tags(data, boundary) ==
    [features |-> [i \in 1 .. Len(data) |->
                     [j \in 1 .. Len(data[i]) |-> SliceTo(data[i][j], boundary)]],
     tags |-> [i \in 1 .. Len(data) |->
                 [j \in 1 .. Len(data[i]) |-> SliceFrom(data[i][j], boundary)]]]

\* torch.from_numpy(x).float() for every x of a list
Tensors(arrays) ==
    [i \in 1 .. Len(arrays) |-> [dtype |-> "float32", array |-> arrays[i]]]

\* list(zip(features, tags))
Zip(features, tags) ==
    [i \in 1 .. Min(Len(features), Len(tags)) |-> <<features[i], tags[i]>>]

\* The orders shuffle() may leave a list in.
Shuffles(seq) ==
    {[i \in 1 .. Len(seq) |-> seq[order[i]]] :
        order \in {f \in [1 .. Len(seq) -> 1 .. Len(seq)] :
                      \A i, j \in 1 .. Len(seq) : f[i] = f[j] => i = j}}

\* int(len(pool) * UTILITY_VALIDATION_SPLIT)
Held(pool, split) == (Len(pool) * split[1]) \div split[2]

\* The script before it has run.
NotRun ==
    [ran |-> FALSE,
     hyperparameters |-> [UTILITY_VALIDATION_SPLIT |-> <<0, 1>>,
                          UTILITY_LOAD_MODEL |-> FALSE,
                          UTILITY_TRAIN_SELLER |-> FALSE,
                          UTILITY_TRAIN_BUYER |-> FALSE,
                          UTILITY_SAVE_MODEL |-> FALSE,
                          RESPONSE_RELATIVE_TIME |-> 0],
     seller_train_data |-> <<>>, buyer_train_data |-> <<>>,
     seller_train_features |-> <<>>, seller_train_tags |-> <<>>,
     buyer_train_features |-> <<>>, buyer_train_tags |-> <<>>,
     all_seller_data |-> <<>>, all_buyer_data |-> <<>>,
     train_seller_data |-> <<>>, test_seller_data |-> <<>>,
     train_buyer_data |-> <<>>, test_buyer_data |-> <<>>,
     fitted |-> <<>>, plotted |-> <<>>]

InitScript == script = NotRun

\* UtilityModel.fit(train, test, save_model, path) of the model of a role
Fit(role, train, test, hp) ==
    [model |-> role, loaded |-> hp.UTILITY_LOAD_MODEL, train |-> train,
     test |-> test, save_model |-> hp.UTILITY_SAVE_MODEL,
     path |-> IF role = "seller" THEN "UTILITY_SELL_PATH" ELSE "UTILITY_BUY_PATH"]

\* The globals after the script has run with the given hyperparameters,
\* pools and shuffled lists.
Globals(hp, pools, all_seller_data, all_buyer_data) ==
    LET seller == split_features_tags(pools.seller, hp.RESPONSE_RELATIVE_TIME)
        buyer == split_features_tags(pools.buyer, hp.RESPONSE_RELATIVE_TIME)
        held_seller == Held(all_seller_data, hp.UTILITY_VALIDATION_SPLIT)
        held_buyer == Held(all_buyer_data, hp.UTILITY_VALIDATION_SPLIT)
        train_seller_data == SliceTo(all_seller_data, -held_seller)
        test_seller_data == SliceFrom(all_seller_data, -held_seller)
        train_buyer_data == SliceTo(all_buyer_data, -held_buyer)
        test_buyer_data == SliceFrom(all_buyer_data, -held_buyer)
    IN  [ran |-> TRUE,
         hyperparameters |-> hp,
         seller_train_data |-> pools.seller,
         buyer_train_data |-> pools.buyer,
         seller_train_features |-> Tensors(seller.features),
         seller_train_tags |-> Tensors(seller.tags),
         buyer_train_features |-> Tensors(buyer.features),
         buyer_train_tags |-> Tensors(buyer.tags),
         all_seller_data |-> all_seller_data,
         all_buyer_data |-> all_buyer_data,
         train_seller_data |-> train_seller_data,
         test_seller_data |-> test_seller_data,
         train_buyer_data |-> train_buyer_data,
         test_buyer_data |-> test_buyer_data,
         fitted |->
            (IF hp.UTILITY_TRAIN_SELLER
             THEN <<Fit("seller", train_seller_data, test_seller_data, hp)>>
             ELSE <<>>)
            \o (IF hp.UTILITY_TRAIN_BUYER
                THEN <<Fit("buyer", train_buyer_data, test_buyer_data, hp)>>
                ELSE <<>>),
         plotted |->
            (IF hp.UTILITY_TRAIN_SELLER THEN <<"seller">> ELSE <<>>)
            \o (IF hp.UTILITY_TRAIN_BUYER THEN <<"buyer">> ELSE <<>>)]

\* The seller (role = "seller") or buyer pairs before shuffle().
Paired(pool, boundary) ==
    Zip(Tensors(split_features_tags(pool, boundary).features),
        Tensors(split_features_tags(pool, boundary).tags))

\* python utility_train.py
UtilityTrain ==
    /\ ~script.ran
    /\ \E hp \in Hyperparameters, seasons \in Seasons :
          \E pools \in {Harvest(seasons)} :
             \E all_seller_data \in
                   Shuffles(Paired(pools.seller, hp.RESPONSE_RELATIVE_TIME)),
                all_buyer_data \in
                   Shuffles(Paired(pools.buyer, hp.RESPONSE_RELATIVE_TIME)) :
                script' = Globals(hp, pools, all_seller_data, all_buyer_data)
    /\ UNCHANGED <<asked, manager, pricelog, trader>>

--------------------------------------------------------------------------
(***************************************************************************)
(* The specifications: the manager under its callbacks, create_controller   *)
(* alone, one History object, and an agent of one class in its simulation.  *)
(***************************************************************************)
Init ==
    /\ InitManager
    /\ created = NotCreated
    /\ InitHistory
    /\ InitAgent
    /\ InitScript
    /\ asked = NotAsked

Next ==
    \/ StartNegotiations
    \/ RespondToNegotiationRequest
    \/ AllNegotiationsConcluded
    \/ GenerateNegotiations
    \/ Secure

Spec == Init /\ [][Next]_vars

NextCreate == CreateController

SpecCreate == Init /\ [][NextCreate]_vars

NextHistory == AddPrice \/ GetAverage

SpecHistory == Init /\ [][NextHistory]_vars

NextTh == Th

SpecTh == Init /\ [][NextTh]_vars

NextTrain == UtilityTrain

SpecTrain == Init /\ [][NextTrain]_vars

NewAdaptiveAgent == New("AdaptiveAgent")

NextAdaptive ==
    \/ NewAdaptiveAgent
    \/ AgentInit(Worlds({"a", "b"}, PriceIssues, WorldSteps))
    \/ BeforeStep
    \/ Propose
    \/ Respond
    \/ OnNegotiationSuccess
    \/ Step

SpecAdaptive == Init /\ [][NextAdaptive]_vars

NewPHLA == New("PHLA")

NextPHLA ==
    \/ NewPHLA
    \/ AgentInit(Worlds({"a"}, PriceIssues, WorldSteps))
    \/ BeforeStep
    \/ Propose
    \/ Respond
    \/ OnNegotiationSuccess
    \/ Step

SpecPHLA == Init /\ [][NextPHLA]_vars

\* A LearningAgent with two partners in a season of one step, or with one
\* partner in a longer season.
NewLearningAgent == New("LearningAgent")

NextLearning ==
    \/ NewLearningAgent
    \/ AgentInit(Worlds({"a", "b"}, PriceIssues, 1)
                    \cup Worlds({"a"}, PriceIssues, WorldSteps))
    \/ BeforeStep
    \/ Propose
    \/ Respond
    \/ OnNegotiationSuccess
    \/ Step

SpecLearning == Init /\ [][NextLearning]_vars

\* An agent of any class of the hierarchy in a season of one step: with two
\* partners at a fixed unit price, or with one partner.
NewAgentOfAnyClass == \E i \in 1 .. Len(Classes) : New(Classes[i])

NextAgents ==
    \/ NewAgentOfAnyClass
    \/ AgentInit(Worlds({"a", "b"}, {<<MaxPrice, MaxPrice>>}, 1)
                    \cup Worlds({"a"}, PriceIssues, 1))
    \/ BeforeStep
    \/ Propose
    \/ Respond
    \/ OnNegotiationSuccess
    \/ Step

SpecAgents == Init /\ [][NextAgents]_vars

--------------------------------------------------------------------------
(***************************************************************************)
(* Properties of the step negotiation manager.                             *)
(***************************************************************************)
SlotsNext(is_seller) == IF is_seller THEN sellers' ELSE buyers'

\* The step is a call all_negotiations_concluded(i, s) for a slot that holds
\* a controller.
ConcludesHeld(i, s) ==
    /\ last'.op = "concluded"
    /\ last'.step = i
    /\ last'.is_seller = s
    /\ Slots(s)[i].controller # None

\* A generation pass for (i, s) is triggered by the step.
PassTriggered(i, s) == pc' = "generate" /\ gen' = <<i, s>>

\* C1 as stated: when the controller held in a slot concludes, secured >=
\* target triggers no generation pass and secured < target always does.
C1_AsStated ==
    [][\A i \in Steps, s \in BOOLEAN :
          ConcludesHeld(i, s) =>
             LET c == Slots(s)[i].controller
             IN  IF c.secured * 10 >= c.target
                 THEN pc' = "idle"
                 ELSE PassTriggered(i, s)]_vars

\* C1 amended: when the controller held in a slot concludes, secured > target
\* triggers no generation pass and secured <= target always triggers one for
\* that step and role; the slot is cleared and marked done either way.
C1_PassIffAtMostTarget ==
    [][\A i \in Steps, s \in BOOLEAN :
          ConcludesHeld(i, s) =>
             LET c == Slots(s)[i].controller
             IN  /\ SlotsNext(s)[i].controller = None
                 /\ SlotsNext(s)[i].done
                 /\ IF c.secured * 10 > c.target
                    THEN pc' = "idle"
                    ELSE PassTriggered(i, s)]_vars

\* A controller concluded having secured at most its target: a pass is pending
\* for its slot, which is cleared.
C1_Witness ==
    /\ last.op = "concluded"
    /\ last.ok
    /\ pc = "generate"
    /\ gen = <<last.step, last.is_seller>>
    /\ Slots(last.is_seller)[last.step].controller = None

\* C2: a controller that create_controller constructs has the internal target
\* 1.2 * T when T < E and 0.8 * T otherwise (in tenths: 12 * T, 8 * T), for
\* every nominal target T and expected quantity E; T = 10 gives 12 with
\* E = 20 and 8 with E = 5 or E = 10.
C2_TargetSizing ==
    /\ created.fresh =>
          created.c.target = IF created.target < created.expected
                             THEN 12 * created.target
                             ELSE 8 * created.target
    /\ target_quantity(10, 20) = 120
    /\ target_quantity(10, 5) = 80
    /\ target_quantity(10, 10) = 80

\* create_controller built a controller for T = 10, E = 20: its target is 12.
C2_Witness ==
    /\ created.fresh
    /\ created.target = 10
    /\ created.expected = 20
    /\ created.c.target = 120

\* C3 as stated: the slot chosen for an inbound request is max(0, tmin - 1)
\* for a sale and min(n_steps - 1, tmax + 1) for a purchase, tmin and tmax
\* being the bounds of the request's delivery-time issue.
C3_AsStated ==
    [][\A is_seller \in BOOLEAN, min_value \in Steps, max_value \in Steps,
          target \in {-1, 0} \cup Qtys :
          (/\ min_value <= max_value
           /\ respond_to_negotiation_request(is_seller, min_value, max_value, target))
          => last'.step = IF is_seller THEN Max(0, min_value - 1)
                          ELSE Min(NSteps - 1, max_value + 1)]_vars

\* C4: no two slots hold the same controller, and a step changes the
\* controller of a slot only from none to a controller or from a controller
\* to none.
C4_NeverOverwritten ==
    [][/\ \A s \in BOOLEAN, i \in Steps :
             LET old == Slots(s)[i].controller
                 new == SlotsNext(s)[i].controller
             IN  old.id # new.id => old = None \/ new = None
       /\ \A s1 \in BOOLEAN, s2 \in BOOLEAN, i1 \in Steps, i2 \in Steps :
             (/\ SlotsNext(s1)[i1].controller # None
              /\ SlotsNext(s1)[i1].controller.id = SlotsNext(s2)[i2].controller.id)
             => s1 = s2 /\ i1 = i2]_vars

\* _start_negotiations was accepted on a slot whose controller had already
\* secured a quantity: the slot still holds that controller.
C4_Witness ==
    /\ last.op = "start"
    /\ last.ok
    /\ made = 1
    /\ Slots(last.is_seller)[last.step].controller.id = 1
    /\ Slots(last.is_seller)[last.step].controller.secured > 0

\* C5: a request whose target is non-positive gets no negotiator and changes
\* neither sellers nor buyers (nor constructs a controller); a request whose
\* target is positive gets a negotiator and its slot holds a controller
\* afterwards.
C5_DeclinesNonPositive ==
    [][last'.op = "respond" =>
          IF last'.target <= 0
          THEN ~last'.ok /\ UNCHANGED <<sellers, buyers, made>>
          ELSE /\ last'.ok
               /\ SlotsNext(last'.is_seller)[last'.step].controller # None]_vars

\* A request was declined while a controller was registered.
C5_Witness ==
    /\ last.op = "respond"
    /\ last.target <= 0
    /\ ~last.ok
    /\ made > 0
    /\ \E s \in BOOLEAN, i \in Steps : Slots(s)[i].controller # None

\* C6: _start_negotiations registers the controller in the slot of its step
\* and role exactly when the platform accepts the request; when the platform
\* rejects it, sellers and buyers are as before.
C6_RegistersIffAccepted ==
    [][last'.op = "start" =>
          LET sell == last'.is_seller
              step == last'.step
              info == SlotsNext(sell)[step]
              old == Slots(sell)[step].controller
          IN  IF last'.ok
              THEN /\ info.controller # None
                   /\ info.controller.id = IF old = None THEN made + 1 ELSE old.id
                   /\ info.controller.step = step
                   /\ info.controller.is_seller = sell
                   /\ info.target \in Qtys
                   /\ ~info.done
                   /\ \A s \in BOOLEAN, i \in Steps :
                         <<s, i>> # <<sell, step>> => SlotsNext(s)[i] = Slots(s)[i]
              ELSE UNCHANGED <<sellers, buyers>>]_vars

\* The platform rejected a request for an empty slot: a controller was
\* constructed and the slot is still empty.
C6_Witness ==
    /\ last.op = "start"
    /\ ~last.ok
    /\ made > 0
    /\ Slots(last.is_seller)[last.step].controller = None
    /\ ~Slots(last.is_seller)[last.step].done

--------------------------------------------------------------------------
(***************************************************************************)
(* Properties of PHLA.History.                                             *)
(***************************************************************************)
\* The last n elements of a sequence (all of it when it is shorter).
LastN(seq, n) ==
    IF Len(seq) <= n THEN seq ELSE SubSeq(seq, Len(seq) - n + 1, Len(seq))

RECURSIVE AddAll(_, _)
AddAll(history, new) ==
    IF new = <<>> THEN history
    ELSE AddAll(add_price(history, Head(new)), Tail(new))

\* C7: after n calls of add_price on a fresh History and nothing else, the
\* stored prices are the last min(n, 6) prices added, in the order added;
\* adding 1..7 leaves [2, 3, 4, 5, 6, 7].
C7_LastSixInOrder ==
    /\ query.n = 0 => prices = LastN(added, DEPTH)
    /\ AddAll(<<>>, <<Num(1), Num(2), Num(3), Num(4), Num(5), Num(6), Num(7)>>)
          = <<Num(2), Num(3), Num(4), Num(5), Num(6), Num(7)>>

\* Seven prices were added, the first differing from the others: it is gone.
C7_Witness ==
    /\ query.n = 0
    /\ Len(added) = 7
    /\ Len(prices) = 6
    /\ added[1] # added[2]
    /\ added[6] # added[7]

\* seq without its elements at the positions i and j.
Without(seq, i, j) ==
    LET keep == {k \in 1 .. Len(seq) : k # i /\ k # j}
        nth(n) == CHOOSE k \in keep : Cardinality({m \in keep : m < k}) = n - 1
    IN  [n \in 1 .. Cardinality(keep) |-> seq[nth(n)]]

\* The extremes of a list: no element is above hi, none below lo.
IsMax(seq, hi) == \A k \in 1 .. Len(seq) : RLe(seq[k], hi)

IsMin(seq, lo) == \A k \in 1 .. Len(seq) : RLe(lo, seq[k])

\* C9 as stated: for 6 prices one maximum and one minimum are removed, the
\* mean of those two is appended and the mean of the resulting 5 values is
\* returned; for no price no value, for 1 to 5 prices their mean.
C9_AsStated ==
    query.n > 0 =>
       LET h == query.before
       IN  /\ Len(h) = 0 => query.avg = NoValue
           /\ Len(h) \in 1 .. 5 => query.avg = Mean(h)
           /\ Len(h) = 6 =>
                 \E i \in 1 .. 6, j \in 1 .. 6 :
                    /\ i # j
                    /\ IsMax(h, h[i])
                    /\ IsMin(h, h[j])
                    /\ LET kept == Append(Without(h, i, j),
                                          RDiv(RAdd(h[i], h[j]), Num(2)))
                       IN  query.after = kept /\ query.avg = Mean(kept)

\* C9 amended: for 6 prices one maximum and one minimum are removed, the
\* mean of the 4 remaining prices is appended (the stored list changes) and
\* the mean of the resulting 5 values, which is the mean of those 4, is
\* returned: 35 for [10, 20, 30, 40, 50, 1000].  For no price no value is
\* returned, for 1 to 5 prices their mean, the list unchanged.
C9_MeanWithoutExtremes ==
    /\ query.n > 0 =>
          LET h == query.before
          IN  /\ Len(h) = 0 => query.avg = NoValue /\ query.after = h
              /\ Len(h) \in 1 .. 5 => query.avg = Mean(h) /\ query.after = h
              /\ Len(h) = 6 =>
                    \E i \in 1 .. 6, j \in 1 .. 6 :
                       /\ i # j
                       /\ IsMax(h, h[i])
                       /\ IsMin(h, h[j])
                       /\ query.avg =
                             RDiv(RSub(RSub(RSum(h), h[i]), h[j]), Num(4))
                       /\ query.after = Append(Without(h, i, j), query.avg)
    /\ LET got == get_average_price_without_extreme_values(
                     <<Num(10), Num(20), Num(30), Num(40), Num(50), Num(1000)>>)
       IN  /\ got.avg = Num(35)
           /\ got.prices = <<Num(20), Num(30), Num(40), Num(50), Num(35)>>

\* The trimmed mean of six prices that are not all equal was asked for.
C9_Witness ==
    /\ query.n > 0
    /\ Len(query.before) = 6
    /\ MaxOf(query.before) # MinOf(query.before)
    /\ RSum(query.before) # RMul(Num(3), RAdd(MaxOf(query.before), MinOf(query.before)))

--------------------------------------------------------------------------
(***************************************************************************)
(* Properties of the one-shot agents.                                      *)
(***************************************************************************)
\* The history PHLA stores for a partner in the role the agent has with it.
Stored(me, world, partner) ==
    IF is_selling(world, partner)
    THEN me.selling_history[partner] ELSE me.buying_history[partner]

\* The callback just made was op.
Did(op) == callback'.op = op

\* C8 as stated: the history PHLA stores for a partner in a role is the last
\* min(k, 6) prices the partner offered in that role this step, in arrival
\* order.  Step by step: before_step empties every history, respond appends
\* the offered price to the history of the offering partner, dropping the
\* oldest of 6, and changes nothing else, and the price-range queries of
\* propose and respond add, remove or replace no stored price.
C8_AsStated ==
    [][/\ Did("before_step") =>
             \A p \in Traders : self'.selling_history[p] = <<>>
                                /\ self'.buying_history[p] = <<>>
       /\ Did("propose") =>
             /\ self'.selling_history = self.selling_history
             /\ self'.buying_history = self.buying_history
       /\ Did("respond") =>
             LET from == callback'.partner
             IN  /\ Stored(self', awi, from) =
                       LastN(Append(Stored(self, awi, from),
                                    callback'.offer.unit_price), DEPTH)
                 /\ \A p \in Traders \ {from} :
                       /\ self'.selling_history[p] = self.selling_history[p]
                       /\ self'.buying_history[p] = self.buying_history[p]
                 /\ is_selling(awi, from) =>
                       self'.buying_history = self.buying_history
                 /\ ~is_selling(awi, from) =>
                       self'.selling_history = self.selling_history]_vars

\* The best prices the partners in the role of partner with have offered
\* the agent in this step are no better than price.
NoBetterShown(with, price) ==
    \A p \in Traders :
       (shown[p].hi # NoValue /\ is_selling(awi, p) = is_selling(awi, with)) =>
          IF is_selling(awi, with)
          THEN RLe(shown[p].hi, price)
          ELSE RLe(price, shown[p].lo)

C11_EndsWhenNothingNeeded ==
    callback.op = "respond" =>
       /\ self.secured = agreed
       /\ awi.exogenous_input + awi.exogenous_output - agreed <= 0
             => callback.response = "END_NEGOTIATION"

\* A PHLA that has secured all it needs in an agreement with one partner is
\* offered a quantity by the other and ends that negotiation.
C11_Witness ==
    /\ cls = "PHLA"
    /\ callback.op = "respond"
    /\ agreed > 0
    /\ awi.exogenous_input + awi.exogenous_output = agreed
    /\ callback.response = "END_NEGOTIATION"

\* The threshold is non-increasing up to the step asked for.
NonIncreasingTo(step, n_steps, value) ==
    \A earlier \in 0 .. step : RLe(value, th(earlier, n_steps))

\* C14 as stated: for every n_steps and every step in 0 .. n_steps - 1 the
\* threshold _th(step, n_steps) is defined, lies in [0, 1], is 1 at step 0,
\* is 0 at step n_steps - 1 and is non-increasing in step.
C14_AsStated ==
    asked # NotAsked =>
       /\ asked.th # NoValue
       /\ RLe(Num(0), asked.th) /\ RLe(asked.th, Num(1))
       /\ asked.step = 0 => asked.th = Num(1)
       /\ asked.step = asked.n_steps - 1 => asked.th = Num(0)
       /\ NonIncreasingTo(asked.step, asked.n_steps, asked.th)

\* What _th does: the same from two rounds on, no value with one round.
ThObserved ==
    asked # NotAsked =>
       IF asked.n_steps = 1 THEN asked.th = NoValue
       ELSE /\ asked.th # NoValue
            /\ RLe(Num(0), asked.th) /\ RLe(asked.th, Num(1))
            /\ asked.step = 0 => asked.th = Num(1)
            /\ asked.step = asked.n_steps - 1 => asked.th = Num(0)
            /\ NonIncreasingTo(asked.step, asked.n_steps, asked.th)

\* C16 as stated: in LearningAgent and PHLA, after any respond callbacks
\* of a step, the best-offered selling price recorded for a partner the
\* agent sells to is the highest unit price that partner itself has offered
\* since the reset (the initial 0 if it has offered nothing), and the
\* best-offered buying price recorded for a partner the agent buys from is
\* the lowest unit price that partner itself has offered (the initial
\* infinity if none): the offers of the other partners leave it alone.
C16_AsStated ==
    (cls \in {"LearningAgent", "PHLA"}
        /\ phase \in {"negotiating", "accepted"}) =>
       \A p \in awi.partners :
          IF is_selling(awi, p)
          THEN self.best_opp_selling[p] =
                  IF shown[p].hi = NoValue THEN Num(0) ELSE shown[p].hi
          ELSE self.best_opp_buying[p] =
                  IF shown[p].lo = NoValue THEN Inf ELSE shown[p].lo

\* C17: over a season of LearningAgent the offered-price trackers are reset
\* once per simulated step, the global best selling and buying prices by
\* before_step and the per-partner best-offered maps by step, while after
\* init the accepted prices, global and per partner, are never reset: the
\* best accepted selling prices never decrease and the best accepted buying
\* prices never increase.
C17_ResetsAndKeeps ==
    [][cls = "LearningAgent" =>
          /\ Did("before_step") =>
                /\ self'.best_selling = Num(0)
                /\ self'.best_buying = Inf
          /\ Did("step") =>
                /\ self'.best_opp_selling = [p \in Traders |-> Num(0)]
                /\ self'.best_opp_buying = [p \in Traders |-> Inf]
          /\ phase \notin {"none", "constructed"} =>
                /\ RLe(self.best_acc_selling, self'.best_acc_selling)
                /\ RLe(self'.best_acc_buying, self.best_acc_buying)
                /\ \A p \in Traders :
                      /\ RLe(self.best_opp_acc_selling[p],
                             self'.best_opp_acc_selling[p])
                      /\ RLe(self'.best_opp_acc_buying[p],
                             self.best_opp_acc_buying[p])]_vars

\* The second step of a season starts after an agreement of the first: the
\* offered prices are at their initial values, the accepted price is kept.
C17_Witness ==
    /\ cls = "LearningAgent"
    /\ callback.op = "before_step"
    /\ awi.current_step = 1
    /\ self.best_selling = Num(0)
    /\ self.best_opp_selling["a"] = Num(0)
    /\ RLt(Num(0), self.best_acc_selling)
    /\ self.best_opp_acc_selling["a"] = self.best_acc_selling

\* C18: the price range PHLA uses for a partner.  When the partner has a
\* history in the agent's role, with trimmed mean m, the minimum is at least
\* m * 0.9 when selling and the maximum is at most m / 0.9 when buying, the
\* other end being LearningAgent's; when the partner has no history this
\* step, as right after before_step, the range is LearningAgent's range and
\* the agent is left as it is.  propose prices its offer in that range.
C18_RangeFollowsHistory ==
    [][(cls = "PHLA" /\ Did("propose") /\ callback'.offer # NoOffer) =>
          LET p == callback'.partner
              r == PHLA_price_range(self, awi, p)
              l == Learning_price_range(self, awi, p)
              h == Stored(self, awi, p)
              m == get_average_price_without_extreme_values(h).avg
          IN  /\ callback'.offer.unit_price =
                    find_good_price(r, awi, p, callback'.step)
              /\ IF h = <<>>
                 THEN r.mn = l.mn /\ r.mx = l.mx /\ self' = self
                 ELSE /\ m # NoValue
                      /\ IF is_selling(awi, p)
                         THEN RLe(RMul(m, PATIENCE_FACTOR), r.mn) /\ r.mx = l.mx
                         ELSE RLe(r.mx, RDiv(m, PATIENCE_FACTOR)) /\ r.mn = l.mn
      ]_vars

\* PHLA prices an offer for a partner it sells to that has offered the top
\* price of the issue three times this step.
C18_Witness ==
    /\ cls = "PHLA"
    /\ callback.op = "propose"
    /\ callback.offer # NoOffer
    /\ is_selling(awi, callback.partner)
    /\ awi.mn < awi.mx
    /\ self.selling_history[callback.partner]
          = <<Num(awi.mx), Num(awi.mx), Num(awi.mx)>>
    /\ RLe(RMul(Num(awi.mx), PATIENCE_FACTOR), callback.offer.unit_price)

\* C19: BetterAgent.respond, in BetterAgent and the classes that inherit
\* it, returns ACCEPT_OFFER only if the needed quantity is positive, the
\* offered quantity does not exceed it and the offered unit price is at
\* least as good for the agent as the price its own propose would return
\* at the same negotiation step and price range (>= when selling, <= when
\* buying); END_NEGOTIATION and REJECT_OFFER of SimpleAgent.respond are
\* returned as they are.
C19_AcceptsOnlyGoodOffers ==
    [][(cls \in {"BetterAgent", "AdaptiveAgent", "LearningAgent", "PHLA"}
           /\ Did("respond")) =>
          LET p == callback'.partner
              offer == callback'.offer
              mine == propose(cls, self, awi, p, callback'.step).offer
              simple == Simple_respond(self, awi, offer)
          IN  /\ callback'.response = "ACCEPT_OFFER" =>
                    /\ needed(self, awi) > 0
                    /\ offer.quantity <= needed(self, awi)
                    /\ mine # NoOffer
                    /\ IF is_selling(awi, p)
                       THEN RLe(mine.unit_price, offer.unit_price)
                       ELSE RLe(offer.unit_price, mine.unit_price)
              /\ simple # "ACCEPT_OFFER" => callback'.response = simple
      ]_vars

\* A BetterAgent half-way through a negotiation accepts an offer at the
\* top price of a proper range from the partner it sells to.
C19_Witness ==
    /\ cls = "BetterAgent"
    /\ callback.op = "respond"
    /\ callback.response = "ACCEPT_OFFER"
    /\ callback.step = NegSteps \div 2
    /\ is_selling(awi, callback.partner)
    /\ awi.mn < awi.mx
    /\ callback.offer.unit_price = Num(awi.mx)

\* C20: with execution fractions in [0, 1], every controller the manager
\* constructs in _start_negotiations or respond_to_negotiation_request gets
\* the internal target 0.8 * nominal target (8 * target tenths): the
\* expected quantity handed to create_controller, and registered with the
\* controller, never exceeds the nominal target, so the 1.2 branch is not
\* taken.
C20_AlwaysDeflated ==
    /\ last.c # None => last.c.target = 8 * last.target
    /\ \A is_seller \in BOOLEAN, step \in Steps :
          Slots(is_seller)[step].controller # None =>
             Slots(is_seller)[step].expected <= Slots(is_seller)[step].target

\* _start_negotiations has just constructed and registered a controller for
\* partners that execute in full: the expected quantity is the nominal
\* target itself.
C20_Witness ==
    /\ last.op = "start"
    /\ last.ok
    /\ last.c # None
    /\ last.c.target = 8 * MaxQty
    /\ Slots(last.is_seller)[last.step].controller = last.c
    /\ Slots(last.is_seller)[last.step].expected = last.target

\* C21 as stated: for an agent negotiating with several partners in one
\* step, under every interleaving of propose, respond and
\* on_negotiation_success, the partners accepting any proposal of the agent
\* they have not answered, the secured quantity never exceeds exogenous
\* input + exogenous output: the needed quantity never becomes negative.
C21_AsStated ==
    phase \in {"negotiating", "accepted"} =>
       /\ self.secured <= awi.exogenous_input + awi.exogenous_output
       /\ needed(self, awi) >= 0

\* C22 as stated: the offers received lying within the unit-price issue
\* and 0 < min <= max, in every state of a step every unit price PHLA
\* proposes lies within [issue min, issue max] and its effective price
\* range for a partner satisfies
\* issue min <= effective min <= effective max <= issue max.
C22_AsStated ==
    (cls = "PHLA" /\ phase \in {"negotiating", "accepted"}) =>
       /\ (callback.op = "propose" /\ callback.offer # NoOffer) =>
             /\ RLe(Num(awi.mn), callback.offer.unit_price)
             /\ RLe(callback.offer.unit_price, Num(awi.mx))
       /\ \A p \in awi.partners :
             LET r == PHLA_price_range(self, awi, p)
             IN  /\ RLe(Num(awi.mn), r.mn)
                 /\ RLe(r.mn, r.mx)
                 /\ RLe(r.mx, Num(awi.mx))

\* The same for the issues with min <= 0.97 * max when selling and
\* 1.03 * min <= max when buying.
RangeObserved ==
    (cls = "PHLA" /\ phase \in {"negotiating", "accepted"}) =>
       \A p \in awi.partners :
          (IF is_selling(awi, p) THEN 100 * awi.mn <= 97 * awi.mx
           ELSE 103 * awi.mn <= 100 * awi.mx) =>
             LET r == PHLA_price_range(self, awi, p)
             IN  /\ RLe(Num(awi.mn), r.mn)
                 /\ RLe(r.mn, r.mx)
                 /\ RLe(r.mx, Num(awi.mx))
                 /\ (callback.op = "propose" /\ callback.partner = p
                        /\ callback.offer # NoOffer) =>
                       /\ RLe(Num(awi.mn), callback.offer.unit_price)
                       /\ RLe(callback.offer.unit_price, Num(awi.mx))

\* C23: between the callbacks of the manager every slot whose done flag is
\* set holds no controller: all_negotiations_concluded sets done and clears
\* the controller, and registering a controller resets done to false.
C23_DoneHoldsNoController ==
    \A is_seller \in BOOLEAN, step \in Steps :
       Slots(is_seller)[step].done =>
          Slots(is_seller)[step].controller = None

\* A slot that was concluded has a controller again, the second one made,
\* and is not done, while another slot of the role is done and empty.
C23_Witness ==
    /\ pc = "idle"
    /\ last.op = "start"
    /\ last.ok
    /\ last.c # None
    /\ last.c.id = 2
    /\ Slots(last.is_seller)[last.step].controller = last.c
    /\ ~Slots(last.is_seller)[last.step].done
    /\ \E step \in Steps \ {last.step} :
          /\ Slots(last.is_seller)[step].done
          /\ Slots(last.is_seller)[step].controller = None

--------------------------------------------------------------------------
(***************************************************************************)
(* Properties of the training script.                                      *)
(***************************************************************************)
\* The partition of a shuffled pool that holds out its last
\* floor(N * split) pairs for validation.
HoldsOutLast(all, train, test, split) ==
    LET N == Len(all)
        k == (N * split[1]) \div split[2]
    IN  /\ Len(test) = k
        /\ Len(train) + Len(test) = N
        /\ test = SubSeq(all, N - k + 1, N)
        /\ train = SubSeq(all, 1, N - k)

\* C12 as stated: for every pool of N >= 0 pairs and every validation
\* fraction f in [0, 1) the validation set is the last floor(N * f) pairs of
\* the shuffled pool and the training set is the rest, so that with
\* floor(N * f) = 0 the validation set is empty and the training set holds
\* all N pairs.
C12_AsStated ==
    script.ran =>
       /\ HoldsOutLast(script.all_seller_data, script.train_seller_data,
                       script.test_seller_data,
                       script.hyperparameters.UTILITY_VALIDATION_SPLIT)
       /\ HoldsOutLast(script.all_buyer_data, script.train_buyer_data,
                       script.test_buyer_data,
                       script.hyperparameters.UTILITY_VALIDATION_SPLIT)

\* What the script does when floor(N * f) > 0, and when it is 0.
PartitionObserved ==
    script.ran =>
       LET all == script.all_seller_data
           split == script.hyperparameters.UTILITY_VALIDATION_SPLIT
       IN  IF (Len(all) * split[1]) \div split[2] > 0
           THEN HoldsOutLast(all, script.train_seller_data,
                             script.test_seller_data, split)
           ELSE /\ script.train_seller_data = <<>>
                /\ script.test_seller_data = all

\* The arrays of a list of tensors.
Arrays(tensors) == [i \in 1 .. Len(tensors) |-> tensors[i].array]

\* Rejoining the feature and label sequences of a pool gives the pool.
Rejoins(data, features, tags) ==
    /\ Len(features) = Len(data)
    /\ Len(tags) = Len(data)
    /\ \A i \in 1 .. Len(data) :
          /\ Len(features[i]) = Len(data[i])
          /\ Len(tags[i]) = Len(data[i])
          /\ \A j \in 1 .. Len(data[i]) :
                features[i][j] \o tags[i][j] = data[i][j]

\* C13: for every recorded negotiation and every message of it, the feature
\* part followed by the label part of split_features_tags is the message,
\* and the feature and label sequences of a negotiation have its length and
\* order: rejoining them reconstructs the negotiation.
C13_SplitRejoins ==
    script.ran =>
       /\ Rejoins(script.seller_train_data,
                  Arrays(script.seller_train_features),
                  Arrays(script.seller_train_tags))
       /\ Rejoins(script.buyer_train_data,
                  Arrays(script.buyer_train_features),
                  Arrays(script.buyer_train_tags))

\* A negotiation of two messages is split inside its messages.
C13_Witness ==
    /\ script.ran
    /\ script.hyperparameters.RESPONSE_RELATIVE_TIME = 1
    /\ script.seller_train_data = <<<<<<3, 4>>, <<5, 6>>>>>>
    /\ Arrays(script.seller_train_features) = <<<<<<3>>, <<5>>>>>>
    /\ Arrays(script.seller_train_tags) = <<<<<<4>>, <<6>>>>>>

\* C15 as stated: with one non-empty seller negotiation and no buyer
\* negotiation in the pools, the seller-train flag set and the buyer-train
\* flag not set, the only fit is the seller model's, its training set
\* contains that negotiation, and the buyer model is neither fitted nor
\* plotted nor saved.
C15_AsStated ==
    (/\ script.ran
     /\ Len(script.seller_train_data) = 1
     /\ script.buyer_train_data = <<>>
     /\ script.hyperparameters.UTILITY_TRAIN_SELLER
     /\ ~script.hyperparameters.UTILITY_TRAIN_BUYER)
    => /\ Len(script.fitted) = 1
       /\ script.fitted[1].model = "seller"
       /\ script.fitted[1].train = script.all_seller_data
       /\ Len(script.all_seller_data) = 1
       /\ script.plotted = <<"seller">>

==========================================================================
